---------------------------- MODULE Spec2Model ----------------------------
(***************************************************************************)
(* DRBot (src/drbot.py): a batch driver for the Data Reviewer engine.      *)
(*                                                                         *)
(* Text values (paths, names, titles, command-line arguments) are          *)
(* sequences of one-character strings, so that indexing, slicing and       *)
(* substring tests are computed as the code computes them.  The exception  *)
(* expressions exc[0], exc[1] and e.message are read as the Python 2       *)
(* interpreter the script was written for reads them (error number, error  *)
(* text, message text).  The engine (arcpy), the file system and the mail  *)
(* relay are the environment: every call into them is a step whose outcome *)
(* is chosen among the outcomes that call can have.                        *)
(***************************************************************************)
EXTENDS Integers, Sequences, FiniteSets, TLC

VARIABLES
    pc,            \* position of the process
    caller,        \* who called runDR: "sysargs", "main" or "direct"
    argv,          \* sys.argv (argv[1] is the program name)
    rules,         \* rule specification handed to runDR
    logfile,       \* log file path of run_from_sysargs / __main__
    mails,         \* recipient list of run_from_sysargs / __main__
    db,            \* self.db
    session_name,  \* runDR's session_name
    license,       \* outstanding check-outs of the datareviewer extension
    tmp_log,       \* self.tmp_log.tmp_log_list
    arc_msgs,      \* messages given to arcpy.AddMessage through set_msg
    ws,            \* the directory self.dr_gdb_location
    sessTable,     \* GDB_REVSESSIONTABLE of the workspace
    revTable,      \* REVTABLEMAIN of the workspace
    manifest,      \* the rule manifest file on disk
    rulefiles,     \* runDR's local rulefiles (may be unbound)
    idx,           \* index of the next rule file of runDR's loop
    sess_obj_id,   \* runDR's local sess_obj_id (may be unbound)
    ee,            \* the ExecuteError being handled in runDR's loop
    invoked,       \* rule files handed to ExecuteReviewerBatchJob_Reviewer
    run,           \* how runDR went: status, caught, summarised
    clean,         \* what the last clean_dr_ws / make_dr_gdb did
    report         \* what report_output did: file written, emails sent

vars == <<pc, caller, argv, rules, logfile, mails, db, session_name, license,
          tmp_log, arc_msgs, ws, sessTable, revTable, manifest, rulefiles, idx,
          sess_obj_id, ee, invoked, run, clean, report>>

-----------------------------------------------------------------------------
(* Bounds of the model *)

MaxLines == 2        \* lines of a manifest
MaxRows == 3         \* rows of REVTABLEMAIN
MaxLogPrefix == 2    \* lines already in the log when report_output is called directly

-----------------------------------------------------------------------------
(* Text *)

EmptyStr == <<>>

\* s in t  (Python substring test)
Contains(s, t) ==
    \E i \in 0..(Len(t) - Len(s)) : SubSeq(t, i + 1, i + Len(s)) = s

\* t[:n]
Prefix(t, n) == SubSeq(t, 1, IF n < Len(t) THEN n ELSE Len(t))

\* t.rfind(c), 0-based, -1 when absent
RFind(t, c) ==
    IF \E i \in 1..Len(t) : t[i] = c
    THEN (CHOOSE i \in 1..Len(t) : t[i] = c /\ \A j \in (i+1)..Len(t) : t[j] # c) - 1
    ELSE -1

\* t[1 + t.rfind(c):], which is also t.split(c)[-1]
AfterLast(t, c) == SubSeq(t, RFind(t, c) + 2, Len(t))

RECURSIVE Split(_, _)
\* t.split(c)
Split(t, c) ==
    IF \E i \in 1..Len(t) : t[i] = c
    THEN LET i == CHOOSE k \in 1..Len(t) : t[k] = c /\ \A j \in 1..(k-1) : t[j] # c
         IN <<SubSeq(t, 1, i - 1)>> \o Split(SubSeq(t, i + 1, Len(t)), c)
    ELSE <<t>>

RECURSIVE RStrip(_, _)
RStrip(t, c) ==
    IF t # <<>> /\ t[Len(t)] = c THEN RStrip(SubSeq(t, 1, Len(t) - 1), c) ELSE t

\* os.path.dirname(p)
Dirname(p) ==
    LET head == SubSeq(p, 1, RFind(p, "/") + 1)
    IN IF head # <<>> /\ (\E i \in 1..Len(head) : head[i] # "/")
       THEN RStrip(head, "/")
       ELSE head

\* os.path.join(a, b) for a b that does not start at a root
PathJoin(a, b) ==
    IF a = <<>> \/ a[Len(a)] = "/" THEN a \o b ELSE a \o <<"/">> \o b

found_marker == <<"F", "o", "u", "n", "d">>
TxtSuffix == <<".", "t", "x", "t">>
CleanWord == <<"c", "l", "e", "a", "n">>
TemplateSessionName == <<"e", "m", "p", "t", "y">>
rule_loc == <<"r", "u", "l", "e", "s", "\\", "s", ".", "r", "b", "j">>
log_loc == <<"l", "o", "g", ".", "t", "x", "t">>
data == <<"t", ".", "g", "d", "b">>
dr_ws_loc == <<"w", ".", "g", "d", "b">>

-----------------------------------------------------------------------------
(* fix_path and the manifest *)

\* path[1] raises IndexError on a path shorter than two characters
FixPathRaises(path) == Len(path) < 2

fix_path(path, basepath) ==
    IF path[2] # ":" /\ path[1] # "/" THEN PathJoin(basepath, path) ELSE path

\* lin[:1] != "#"
NotComment(lin) == Prefix(lin, 1) # <<"#">>

\* the list comprehension of runDR: raises when fix_path does
ResolveRaises(lines) ==
    \E i \in 1..Len(lines) : NotComment(lines[i]) /\ FixPathRaises(lines[i])

ResolveManifest(lines, rulespec) ==
    LET kept == SelectSeq(lines, NotComment)
    IN [i \in 1..Len(kept) |-> fix_path(kept[i], Dirname(rulespec))]

-----------------------------------------------------------------------------
(* parse_arc_error *)

\* An engine message is a sequence of "ERROR <digits>:" parts; each part is
\* given by its digits.
Code732 == 732
Digits732 == <<0, 0, 0, 7, 3, 2>>
Digits582 == <<0, 0, 0, 5, 8, 2>>
DigitsBare732 == <<7, 3, 2>>
DigitsZero == <<0, 0, 0, 0, 0, 0>>

\* messages of the engine: no part, one part, two parts
EngineMessages ==
    {<<>>, <<Digits732>>, <<Digits582>>, <<DigitsBare732>>, <<DigitsZero>>,
     <<Digits732, Digits582>>, <<Digits582, Digits732>>, <<DigitsBare732, Digits732>>}

RECURSIVE SeqsUpTo(_, _)
\* every sequence over S of length at most n
SeqsUpTo(S, n) ==
    IF n = 0 THEN {<<>>}
    ELSE LET shorter == SeqsUpTo(S, n - 1)
         IN shorter \cup {Append(q, x) : q \in shorter, x \in S}

RECURSIVE DecimalValue(_)
DecimalValue(ds) ==
    IF ds = <<>> THEN 0
    ELSE 10 * DecimalValue(SubSeq(ds, 1, Len(ds) - 1)) + ds[Len(ds)]

\* 'ERROR 0+([1-9]\d*):' matches a part: one zero or more, then a digit 1-9
PartMatches(ds) ==
    \E k \in 1..(Len(ds) - 1) :
        /\ \A j \in 1..k : ds[j] = 0
        /\ ds[k + 1] # 0

\* re.search: the first part that matches; None when there is none
ParseFinds(msg) == \E i \in 1..Len(msg) : PartMatches(msg[i])

\* obj is None: parse_arc_error raises e again
ParseRaises(msg) == ~ParseFinds(msg)

parse_arc_error(msg) ==
    LET i == CHOOSE k \in 1..Len(msg) :
                 PartMatches(msg[k]) /\ \A j \in 1..(k - 1) : ~PartMatches(msg[j])
    IN DecimalValue(msg[i])

-----------------------------------------------------------------------------
(* TmpLog *)

\* A log line: the format string it was made with (kind), the number and the
\* texts put into it.
Line(kind, n, args) == [kind |-> kind, n |-> n, args |-> args]

StartLine == Line("Start time: ", 0, <<>>)
CheckingLine(d) == Line("Checking {}", 0, <<d>>)
ErrorsToLine(w) == Line("Errors will be written to {}", 0, <<w>>)
ExecWarningLine(f) == Line("Found execution error: File {} not found.", 0, <<f>>)
TotalLine(n, title) == Line("Total {} DRBot hits for {}", n, <<title>>)
FoundLine(row) == Line("Found {}{}, OBJECTID={}: {} ({})", row.oid, <<row.title>>)
NoErrorsLine == Line("No errors found.", 0, <<>>)
DoneLine == Line("Done", 0, <<>>)
DurationLine == Line("Total {} duration (h:mm:ss.dd): ", 0, <<>>)
CleanupLine == Line("Cleanup completed.", 0, <<>>)

\* the format strings that hold the text "Found" themselves
FormatsWithMarker ==
    {"Found execution error: File {} not found.", "Found {}{}, OBJECTID={}: {} ({})"}

\* s in itm, for s the found marker
LineContains(itm, s) ==
    \/ s = found_marker /\ itm.kind \in FormatsWithMarker
    \/ \E i \in 1..Len(itm.args) : Contains(s, itm.args[i])

log(lst, msg) == Append(lst, msg)

count_lines_with(lst, s) ==
    Cardinality({i \in 1..Len(lst) : LineContains(lst[i], s)})

contains_line_with(lst, s) ==
    \E i \in 1..Len(lst) : LineContains(lst[i], s)

-----------------------------------------------------------------------------
(* summarise_dr_output *)

TitleA == <<"A">>
TitleB == <<"B">>
Titles == {EmptyStr, TitleA, TitleB}
CharOrder == <<"A", "B">>
Rank(c) == CHOOSE i \in 1..Len(CharOrder) : CharOrder[i] = c

RECURSIVE StrLess(_, _)
\* a < b in the table's collation
StrLess(a, b) ==
    IF b = <<>> THEN FALSE
    ELSE IF a = <<>> THEN TRUE
    ELSE IF a[1] # b[1] THEN Rank(a[1]) < Rank(b[1])
    ELSE StrLess(Tail(a), Tail(b))

\* ORDER BY CHECKTITLE, OBJECTID
RowBefore(r, q) ==
    \/ StrLess(r.title, q.title)
    \/ r.title = q.title /\ r.oid < q.oid

RECURSIVE OrderBy(_)
OrderBy(rows) ==
    IF rows = <<>> THEN <<>>
    ELSE LET i == CHOOSE k \in 1..Len(rows) :
                      \A j \in 1..Len(rows) : j # k => RowBefore(rows[k], rows[j])
             rest == [j \in 1..(Len(rows) - 1) |-> IF j < i THEN rows[j] ELSE rows[j + 1]]
         IN <<rows[i]>> \o OrderBy(rest)

\* arcpy.da.SearchCursor(REVTABLEMAIN, where SESSIONID = sid, ORDER BY ...)
SessionRows(table, sid) ==
    OrderBy(SelectSeq(table, LAMBDA r : r.sid = sid))

RECURSIVE SummariseLoop(_, _, _, _, _)
\* the for loop of summarise_dr_output from row i on:
\* its result is [lst, prev_check, check_count]
SummariseLoop(rows, i, lst, prev_check, check_count) ==
    IF i > Len(rows)
    THEN [lst |-> lst, prev_check |-> prev_check, check_count |-> check_count]
    ELSE LET title == rows[i].title
             changed == title # prev_check
             lst1 == IF changed /\ prev_check # EmptyStr
                     THEN log(lst, TotalLine(check_count, prev_check))
                     ELSE lst
             prev1 == IF changed THEN title ELSE prev_check
             cnt1 == (IF changed THEN 0 ELSE check_count) + 1
         IN SummariseLoop(rows, i + 1, log(lst1, FoundLine(rows[i])), prev1, cnt1)

\* a summarizer that writes the line whatever the log holds
WrongNoErrorsStep(lst) == log(lst, NoErrorsLine)

\* the "No errors found." line
NoErrorsStep(lst) ==
    IF count_lines_with(lst, found_marker) = 0 THEN log(lst, NoErrorsLine) ELSE lst

summarise_dr_output(lst, rows) ==
    LET after == SummariseLoop(rows, 1, lst, EmptyStr, 0)
        flushed == IF after.prev_check # EmptyStr
                   THEN log(after.lst, TotalLine(after.check_count, after.prev_check))
                   ELSE after.lst
    IN NoErrorsStep(flushed)

-----------------------------------------------------------------------------
(* The workspace: make_dr_gdb and clean_dr_ws *)

\* A directory is "absent", "plain" (it exists and is not review-enabled) or
\* "enabled" (a review-enabled workspace).  The template is "absent"
\* (template_dr_gdb is '' or no directory) or an "enabled" workspace holding
\* the session 'Session 1 : empty'.  The template path is configuration of
\* the object (constructor argument, line 399 for the script), so both cases
\* are drawn.
DirStates == {"absent", "plain", "enabled"}
TemplateStates == {"absent", "enabled"}
TemplateSessions == <<[name |-> TemplateSessionName, id |-> 1]>>

CopyOutcomes == {"ok", "shutil_error", "os_error"}
CreateOutcomes == {"ok", "create_fails", "enable_fails"}
RmOutcomes == {"ok", "in_use", "other"}

\* shutil.copytree cannot succeed onto a directory that exists
CopyFeasible(w, copyOut) == w # "absent" => copyOut = "os_error"

make_dr_gdb(w, sessions, tpl, copyOut, createOut) ==
    LET copying == tpl # "absent"
        w1 == IF ~copying THEN w
              ELSE IF copyOut = "ok" THEN tpl
              ELSE IF copyOut = "shutil_error" THEN "plain"
              ELSE w
        s1 == IF copying /\ copyOut = "ok" THEN TemplateSessions ELSE sessions
        m1 == <<"Making DR gdb...">> \o
              (IF ~copying \/ copyOut = "ok" THEN <<>>
               ELSE IF copyOut = "shutil_error"
               THEN <<"Couldn't copy DR gdb template (shutil.Error).">>
               ELSE <<"Couldn't copy DR gdb template (non-shutil.Error).">>)
        creating == w1 = "absent"
        w2 == IF ~creating THEN w1
              ELSE IF createOut = "ok" THEN "enabled"
              ELSE IF createOut = "enable_fails" THEN "plain"
              ELSE "absent"
        m2 == IF ~creating THEN m1
              ELSE m1 \o <<"Creating empty fgdb for DR...">> \o
                   (IF createOut = "ok" THEN <<>>
                    ELSE <<"Couldn't create empty gdb for DR workspace.">>)
        how == IF copying /\ copyOut = "ok" THEN "copied"
               ELSE IF copying /\ copyOut = "shutil_error" THEN "failed"
               ELSE IF ~creating THEN "none"
               ELSE IF createOut = "ok" THEN "created"
               ELSE "failed"
    IN [ws |-> w2, sessions |-> s1, msgs |-> m2, copy |-> copying, create |-> creating,
        how |-> how]

NotCleaned ==
    [called |-> FALSE, existed |-> FALSE, rm |-> "none", make |-> FALSE,
     copy |-> FALSE, create |-> FALSE, made |-> "none"]

\* clean_dr_ws without the early return of the file-in-use branch
CleanFallsThrough(w, sessions, tables, rmOut, left, tpl, copyOut, createOut) ==
    IF w = "absent"
    THEN [ws |-> w, sessions |-> sessions, tables |-> tables,
          msgs |-> <<"Cleaning up DR gdb...">>,
          trace |-> [NotCleaned EXCEPT !.called = TRUE]]
    ELSE LET w1 == IF rmOut = "ok" THEN "absent" ELSE left
             s1 == IF w1 = "enabled" THEN sessions ELSE <<>>
             t1 == IF w1 = "enabled" THEN tables ELSE <<>>
             m1 == <<"Cleaning up DR gdb...", "Deleting DR gdb ...">> \o
                   (IF rmOut = "ok" THEN <<>>
                    ELSE <<"Failed to delete existing DR gdb.">>)
             made == make_dr_gdb(w1, s1, tpl, copyOut, createOut)
         IN [ws |-> made.ws, sessions |-> made.sessions, tables |-> t1,
             msgs |-> m1 \o made.msgs,
             trace |-> [called |-> TRUE, existed |-> TRUE, rm |-> rmOut,
                        make |-> TRUE, copy |-> made.copy, create |-> made.create,
                        made |-> made.how]]

\* rmOut is what shutil.rmtree did; left is the directory a failed rmtree leaves
clean_dr_ws(w, sessions, tables, rmOut, left, tpl, copyOut, createOut) ==
    IF w = "absent"
    THEN [ws |-> w, sessions |-> sessions, tables |-> tables,
          msgs |-> <<"Cleaning up DR gdb...">>,
          trace |-> [NotCleaned EXCEPT !.called = TRUE]]
    ELSE LET w1 == IF rmOut = "ok" THEN "absent" ELSE left
             s1 == IF w1 = "enabled" THEN sessions ELSE <<>>
             t1 == IF w1 = "enabled" THEN tables ELSE <<>>
             m1 == <<"Cleaning up DR gdb...", "Deleting DR gdb ...">> \o
                   (IF rmOut = "ok" THEN <<>>
                    ELSE <<"Failed to delete existing DR gdb.">>)
             made == make_dr_gdb(w1, s1, tpl, copyOut, createOut)
         IN IF rmOut = "in_use"
            THEN [ws |-> w1, sessions |-> s1, tables |-> t1,
                  msgs |-> m1 \o <<"  file is in use">>,
                  trace |-> [called |-> TRUE, existed |-> TRUE, rm |-> rmOut,
                             make |-> FALSE, copy |-> FALSE, create |-> FALSE,
                             made |-> "none"]]
            ELSE [ws |-> made.ws, sessions |-> made.sessions, tables |-> t1,
                  msgs |-> (IF rmOut = "other"
                            THEN m1 \o <<"Exception during DR workspace cleanup">>
                            ELSE m1) \o made.msgs,
                  trace |-> [called |-> TRUE, existed |-> TRUE, rm |-> rmOut,
                             make |-> TRUE, copy |-> made.copy, create |-> made.create,
                        made |-> made.how]]

\* a failed rmtree leaves the directory, as it was or with parts of it gone
RmFeasible(w, rmOut, left) ==
    IF rmOut = "ok" THEN left = "absent" ELSE left \in {w, "plain"}

-----------------------------------------------------------------------------
(* Inputs and the environment at the start *)

ProgName == <<"d">>
RbjArg == <<"r", ".", "r", "b", "j">>
TxtArg == <<"d", "/", "m", ".", "t", "x", "t">>
LogArgs == {EmptyStr, <<"l">>, <<"d", "\\", "l">>}
DbArgs == {<<"o">>}
MailArgs == {EmptyStr, <<"m">>, <<",">>, <<"m", ",", "n">>}
RuleArgs == {CleanWord, RbjArg, TxtArg}

ArgvSet ==
    {<<ProgName>>}
    \cup {<<ProgName, a>> : a \in RuleArgs}
    \cup {<<ProgName, a, b>> : a \in RuleArgs, b \in LogArgs}
    \cup {<<ProgName, a, b, c>> : a \in RuleArgs, b \in LogArgs, c \in DbArgs}
    \cup {<<ProgName, a, b, c, d>> :
            a \in RuleArgs, b \in LogArgs, c \in DbArgs, d \in MailArgs}

\* lines of a manifest: blank, one character, comment, relative and absolute
ManifestLines ==
    {EmptyStr, <<"a">>, <<"#", "a">>, <<"a", "a">>, <<"/", "a">>, <<"a", ":">>}

MissingManifest == [status |-> "missing", lines |-> <<>>]
Manifests ==
    {MissingManifest, [status |-> "unreadable", lines |-> <<>>]}
    \cup {[status |-> "ok", lines |-> l] : l \in SeqsUpTo(ManifestLines, MaxLines)}
CliManifests ==
    {MissingManifest, [status |-> "unreadable", lines |-> <<>>],
     [status |-> "ok", lines |-> << <<"a", "a">> >>]}

\* session tables earlier runs can have left in a review-enabled workspace
PriorSessions(name) ==
    {<<>>, TemplateSessions, <<[name |-> name, id |-> 1]>>,
     TemplateSessions \o <<[name |-> name, id |-> 2]>>}

\* findings earlier runs can have left for the sessions of the table
PriorFindings(sessions, name) ==
    {<<>>} \cup {<<[sid |-> sessions[i].id, title |-> TitleA, oid |-> 1]>> :
                    i \in {j \in 1..Len(sessions) : sessions[j].name = name}}

Unbound == [bound |-> FALSE, val |-> <<>>]
Bound(v) == [bound |-> TRUE, val |-> v]

Idle ==
    [status |-> "idle", early |-> FALSE, caught |-> FALSE, summarised |-> FALSE,
     checkouts |-> 0, session |-> "none", created |-> 0]

NotReported ==
    [called |-> FALSE, logfile |-> EmptyStr, mails |-> <<>>, always |-> FALSE,
     marker |-> FALSE, write |-> "none", file |-> <<>>, emails |-> <<>>]

\* a new DRBot object and process: nothing has run
Fresh ==
    /\ license = 0
    /\ tmp_log = <<>>
    /\ arc_msgs = <<>>
    /\ rulefiles = Unbound
    /\ idx = 0
    /\ sess_obj_id = Unbound
    /\ ee = <<>>
    /\ invoked = <<>>
    /\ run = Idle
    /\ clean = NotCleaned
    /\ report = NotReported

Workspace(name) ==
    /\ ws \in DirStates
    /\ sessTable \in (IF ws = "enabled" THEN PriorSessions(name) ELSE {<<>>})
    /\ revTable \in (IF ws = "enabled" THEN PriorFindings(sessTable, name) ELSE {<<>>})

-----------------------------------------------------------------------------
(* runDR *)

RunVars == <<caller, argv, rules, logfile, mails, db, session_name, manifest>>

\* except Exception as exc (lines 192-194): the exception is given to set_msg
Caught ==
    /\ run' = [run EXCEPT !.caught = TRUE]
    /\ arc_msgs' = arc_msgs \o <<"Exception during DRBot ">>
    /\ pc' = "checkin"

\* lines 128-137
RunDR_Begin ==
    /\ pc = "entry"
    /\ tmp_log' = log(tmp_log, StartLine)
    /\ license' = license + 1
    /\ run' = [run EXCEPT !.status = "running", !.checkouts = @ + 1]
    /\ pc' = "load"
    /\ UNCHANGED <<RunVars, arc_msgs, ws, sessTable, revTable, rulefiles, idx,
                   sess_obj_id, ee, invoked, clean, report>>

\* lines 138-154
LoadRules ==
    /\ pc = "load"
    /\ IF Contains(TxtSuffix, rules)
       THEN CASE manifest.status = "missing" ->
                   /\ arc_msgs' = arc_msgs \o <<"Loading rule file(s)", "ERROR reading rules",
                                               "no such file or directory">>
                   /\ run' = [run EXCEPT !.status = "returned", !.early = TRUE]
                   /\ pc' = "returned"
                   /\ UNCHANGED rulefiles
              [] manifest.status = "unreadable" ->
                   /\ arc_msgs' = arc_msgs \o <<"Loading rule file(s)", "ERROR reading rules",
                                               "traceback">>
                   /\ pc' = "prep"
                   /\ UNCHANGED <<run, rulefiles>>
              [] manifest.status = "ok" /\ ResolveRaises(manifest.lines) ->
                   /\ arc_msgs' = arc_msgs \o <<"Loading rule file(s)">>
                   /\ run' = [run EXCEPT !.status = "raised"]
                   /\ pc' = "raised"
                   /\ UNCHANGED rulefiles
              [] OTHER ->
                   /\ arc_msgs' = arc_msgs \o <<"Loading rule file(s)">>
                   /\ rulefiles' = Bound(ResolveManifest(manifest.lines, rules))
                   /\ pc' = "prep"
                   /\ UNCHANGED run
       ELSE /\ arc_msgs' = arc_msgs \o <<"Loading rule file(s)">>
            /\ rulefiles' = Bound(<<rules>>)
            /\ pc' = "prep"
            /\ UNCHANGED run
    /\ UNCHANGED <<RunVars, license, tmp_log, ws, sessTable, revTable, idx,
                   sess_obj_id, ee, invoked, clean, report>>

NextSessionId(sessions) ==
    IF sessions = <<>> THEN 1
    ELSE 1 + (CHOOSE m \in {sessions[i].id : i \in 1..Len(sessions)} :
                  \A i \in 1..Len(sessions) : sessions[i].id <= m)

HasTemplateSession(sessions) ==
    \E i \in 1..Len(sessions) :
        sessions[i].id = 1 /\ sessions[i].name = TemplateSessionName

\* the engine creates a session only in a review-enabled workspace, and from
\* the template session only where that session is
SessionFeasible(w, sessions, o1, o2) ==
    /\ o1 = "ok" => w = "enabled" /\ HasTemplateSession(sessions)
    /\ o1 = "execute_error" /\ o2 = "ok" => w = "enabled"
    /\ o1 # "execute_error" => o2 = "fail"

\* prep_dr_ws (lines 252-276): how the session was made, "error" when the
\* first attempt raised something that is no ExecuteError
prep_dr_ws(o1, o2) ==
    IF o1 = "ok" THEN "template"
    ELSE IF o1 = "other_error" THEN "error"
    ELSE IF o2 = "ok" THEN "plain"
    ELSE "failed"

\* lines 156-158
PrepDrWs ==
    /\ pc = "prep"
    /\ \E tpl \in TemplateStates, copyOut \in CopyOutcomes, createOut \in CreateOutcomes,
          o1 \in {"ok", "execute_error", "other_error"}, o2 \in {"ok", "fail"} :
         LET made == IF ws = "absent"
                     THEN make_dr_gdb(ws, sessTable, tpl, copyOut, createOut)
                     ELSE [ws |-> ws, sessions |-> sessTable, msgs |-> <<>>,
                           copy |-> FALSE, create |-> FALSE, how |-> "none"]
             how == prep_dr_ws(o1, o2)
             row == [name |-> session_name, id |-> NextSessionId(made.sessions)]
             msgs == <<"Preparing Data Reviewer Session...">> \o made.msgs \o
                     (IF how \in {"plain", "failed"}
                      THEN <<"Couldn't create reviewer session from template">>
                      ELSE <<>>) \o
                     (IF how = "failed"
                      THEN <<"Problem while creating empty reviewer session: ">>
                      ELSE <<>>)
         IN /\ CopyFeasible(ws, copyOut)
            /\ SessionFeasible(made.ws, made.sessions, o1, o2)
            /\ ws' = made.ws
            /\ sessTable' = IF how \in {"template", "plain"}
                            THEN Append(made.sessions, row)
                            ELSE made.sessions
            /\ IF how = "error"
               THEN /\ run' = [run EXCEPT !.caught = TRUE, !.session = how]
                    /\ arc_msgs' = arc_msgs \o msgs \o <<"Exception during DRBot ">>
                    /\ pc' = "checkin"
               ELSE /\ run' = [run EXCEPT !.session = how,
                                          !.created = IF how = "failed" THEN @ ELSE @ + 1]
                    /\ arc_msgs' = arc_msgs \o msgs
                    /\ pc' = "lookup"
    /\ UNCHANGED <<RunVars, license, tmp_log, revTable, rulefiles, idx, sess_obj_id,
                   ee, invoked, clean, report>>

\* the rows of the session table the cursor of line 163 yields
MatchingSessions(sessions, name) == SelectSeq(sessions, LAMBDA r : r.name = name)

\* lines 160-172
FindSession ==
    /\ pc = "lookup"
    /\ \E cursorFails \in BOOLEAN :
         LET found == MatchingSessions(sessTable, session_name)
         IN /\ ws # "enabled" => cursorFails
            /\ IF cursorFails \/ found = <<>>
               THEN /\ Caught
                    /\ UNCHANGED <<tmp_log, sess_obj_id, idx>>
               ELSE /\ sess_obj_id' = Bound(found[Len(found)].id)
                    /\ arc_msgs' = arc_msgs \o <<"  Created session:">>
                    /\ tmp_log' = log(log(tmp_log, CheckingLine(db)), ErrorsToLine(dr_ws_loc))
                    /\ idx' = 1
                    /\ pc' = "loop"
                    /\ UNCHANGED run
    /\ UNCHANGED <<RunVars, license, ws, sessTable, revTable, rulefiles, ee, invoked,
                   clean, report>>

\* findings one batch job writes
Batches == {<<>>, <<TitleA>>, <<TitleB>>, <<EmptyStr>>, <<TitleB, TitleA>>}

\* the engine's rows for the findings of one batch job
NewRows(table, sid, batch) ==
    [i \in 1..Len(batch) |-> [sid |-> sid, title |-> batch[i], oid |-> Len(table) + i]]

Call(file, kind) == [file |-> file, kind |-> kind]

\* lines 175-179: the call of ExecuteReviewerBatchJob_Reviewer on one rule file
ExecCall ==
    /\ pc = "loop"
    /\ rulefiles.bound
    /\ idx <= Len(rulefiles.val)
    /\ LET file == rulefiles.val[idx]
       IN \/ \E batch \in Batches :
               /\ Len(revTable) + Len(batch) <= MaxRows
               /\ revTable' = revTable \o NewRows(revTable, sess_obj_id.val, batch)
               /\ invoked' = Append(invoked, Call(file, "ok"))
               /\ idx' = idx + 1
               /\ UNCHANGED <<pc, ee, run, arc_msgs>>
          \/ \E msg \in EngineMessages :
               /\ invoked' = Append(invoked, Call(file, "error"))
               /\ ee' = msg
               /\ pc' = "exec_except"
               /\ UNCHANGED <<revTable, idx, run, arc_msgs>>
          \/ /\ invoked' = Append(invoked, Call(file, "crash"))
             /\ Caught
             /\ UNCHANGED <<revTable, idx, ee>>
    /\ UNCHANGED <<RunVars, license, tmp_log, ws, sessTable, rulefiles, sess_obj_id,
                   clean, report>>

\* line 175 with rulefiles never assigned (the manifest could not be read)
LoopNameError ==
    /\ pc = "loop"
    /\ ~rulefiles.bound
    /\ Caught
    /\ UNCHANGED <<RunVars, license, tmp_log, ws, sessTable, revTable, rulefiles, idx,
                   sess_obj_id, ee, invoked, clean, report>>

\* a handler that takes every engine error for a missing rule file
WrongIsFileNotFound(err) == err > 0

\* err == 732 (line 183)
IsFileNotFound(err) == err = Code732

\* lines 180-187
ExecHandle ==
    /\ pc = "exec_except"
    /\ IF ~ParseRaises(ee) /\ IsFileNotFound(parse_arc_error(ee))
       THEN /\ tmp_log' = log(tmp_log, ExecWarningLine(rulefiles.val[idx]))
            /\ idx' = idx + 1
            /\ pc' = "loop"
            /\ UNCHANGED <<run, arc_msgs>>
       ELSE /\ Caught
            /\ UNCHANGED <<tmp_log, idx>>
    /\ ee' = <<>>
    /\ UNCHANGED <<RunVars, license, ws, sessTable, revTable, rulefiles, sess_obj_id,
                   invoked, clean, report>>

\* lines 189-190
Summarise ==
    /\ pc = "loop"
    /\ rulefiles.bound
    /\ idx > Len(rulefiles.val)
    /\ \E cursorFails \in BOOLEAN :
         IF cursorFails
         THEN /\ run' = [run EXCEPT !.caught = TRUE]
              /\ arc_msgs' = arc_msgs \o <<"Checks completed, summarising output.",
                                          "Exception during DRBot cursor">>
              /\ pc' = "checkin"
              /\ UNCHANGED tmp_log
         ELSE /\ tmp_log' = summarise_dr_output(tmp_log, SessionRows(revTable, sess_obj_id.val))
              /\ run' = [run EXCEPT !.summarised = TRUE]
              /\ arc_msgs' = arc_msgs \o <<"Checks completed, summarising output.">>
              /\ pc' = "checkin"
    /\ UNCHANGED <<RunVars, license, ws, sessTable, revTable, rulefiles, idx, sess_obj_id,
                   ee, invoked, clean, report>>

\* lines 196-202
CheckIn ==
    /\ pc = "checkin"
    /\ license' = license - 1
    /\ tmp_log' = log(log(tmp_log, DoneLine), DurationLine)
    /\ run' = [run EXCEPT !.status = "returned"]
    /\ pc' = "returned"
    /\ UNCHANGED <<RunVars, arc_msgs, ws, sessTable, revTable, rulefiles, idx,
                   sess_obj_id, ee, invoked, clean, report>>

RunDR ==
    \/ RunDR_Begin
    \/ LoadRules
    \/ PrepDrWs
    \/ FindSession
    \/ ExecCall
    \/ LoopNameError
    \/ ExecHandle
    \/ Summarise
    \/ CheckIn

\* runDR called on a new DRBot with a rule specification and a session keyword
InitRun ==
    /\ Fresh
    /\ pc = "entry"
    /\ caller = "direct"
    /\ argv = <<ProgName>>
    /\ rules \in {RbjArg, TxtArg}
    /\ logfile = EmptyStr
    /\ mails = <<>>
    /\ db = data
    /\ session_name = <<"l">>
    /\ manifest \in (IF Contains(TxtSuffix, rules) THEN Manifests ELSE {MissingManifest})
    /\ Workspace(session_name)

SpecRun == InitRun /\ [][RunDR]_vars

-----------------------------------------------------------------------------
(* report_output *)

\* mails == [""]  becomes  ""  (lines 105-106); "" and [] both have length 0
NormaliseMails(ml) == IF ml = <<EmptyStr>> THEN <<>> ELSE ml

\* a report that never looks for the marker
WrongSendsMail(ml, always, lst) == always /\ Len(ml) > 0

\* lines 112-118: whether send_email is called
SendsMail(ml, always, lst) ==
    LET always2 == always \/ (Len(ml) > 0 /\ contains_line_with(lst, found_marker))
    IN always2 /\ Len(ml) > 0

\* report_output(lf, ml, subj, always); writeOut is what open(lf, 'w') and the
\* writes did, delivered whether the mail relay took the message
ReportOutput(lf, ml, always, writeOut, delivered, nextpc) ==
    LET ml1 == NormaliseMails(ml)
        writing == Len(lf) > 0
        failed == writing /\ writeOut = "failed"
        sending == ~failed /\ SendsMail(ml1, always, tmp_log)
    IN /\ ~writing => writeOut = "ok"
       /\ ~sending => ~delivered
       /\ report' = [called |-> TRUE, logfile |-> lf, mails |-> ml, always |-> always,
                     marker |-> contains_line_with(tmp_log, found_marker),
                     write |-> IF writing THEN writeOut ELSE "none",
                     file |-> IF writing /\ ~failed THEN tmp_log ELSE <<>>,
                     emails |-> IF sending
                                THEN <<[to |-> ml1,
                                        issues |-> count_lines_with(tmp_log, found_marker),
                                        delivered |-> delivered]>>
                                ELSE <<>>]
       /\ pc' = IF failed THEN "raised" ELSE nextpc

WorldVars == <<license, tmp_log, arc_msgs, ws, sessTable, revTable, manifest, rulefiles,
               idx, sess_obj_id, ee, invoked, run, clean>>

\* lines 101 and 410: the report after runDR
ReportAfterRun ==
    /\ pc = "returned"
    /\ caller \in {"sysargs", "main"}
    /\ \E writeOut \in {"ok", "failed"}, delivered \in BOOLEAN :
         ReportOutput(logfile, mails, caller = "sysargs", writeOut, delivered, "exit")
    /\ UNCHANGED <<WorldVars, caller, argv, rules, logfile, mails, db, session_name>>

MailLists == {<<>>, <<EmptyStr>>, <<EmptyStr, EmptyStr>>, << <<"m">> >>}

\* report_output called by a user of the class
ReportDirect ==
    /\ pc = "report_call"
    /\ \E lf \in LogArgs, ml \in MailLists, always \in BOOLEAN,
          writeOut \in {"ok", "failed"}, delivered \in BOOLEAN :
         ReportOutput(lf, ml, always, writeOut, delivered, "exit")
    /\ UNCHANGED <<WorldVars, caller, argv, rules, logfile, mails, db, session_name>>

-----------------------------------------------------------------------------
(* run_from_sysargs and __main__ *)

\* a clean mode that wants one more argument
WrongIsCleanMode(av) == Len(av) = 3 /\ av[2] = CleanWord

\* line 81
IsCleanMode(av) == Len(av) = 2 /\ av[2] = CleanWord

\* lines 82-84
SysargsClean ==
    /\ pc = "main"
    /\ Len(argv) > 1
    /\ IsCleanMode(argv)
    /\ \E rmOut \in RmOutcomes, left \in DirStates, tpl \in TemplateStates,
          copyOut \in CopyOutcomes, createOut \in CreateOutcomes :
         LET done == clean_dr_ws(ws, sessTable, revTable, rmOut, left, tpl, copyOut, createOut)
         IN /\ RmFeasible(ws, rmOut, left)
            /\ CopyFeasible(left, copyOut)
            /\ ws' = done.ws
            /\ sessTable' = done.sessions
            /\ revTable' = done.tables
            /\ arc_msgs' = arc_msgs \o done.msgs
            /\ clean' = done.trace
    /\ tmp_log' = log(tmp_log, CleanupLine)
    /\ pc' = "exit"
    /\ UNCHANGED <<caller, argv, rules, logfile, mails, db, session_name, license,
                   manifest, rulefiles, idx, sess_obj_id, ee, invoked, run, report>>

Arg(av, i, default) == IF Len(av) > i THEN av[i + 1] ELSE default

\* lines 77-99 (the clean mode of line 81 apart)
RunFromSysargs ==
    /\ pc = "main"
    /\ Len(argv) > 1
    /\ ~IsCleanMode(argv)
    /\ rules' = Arg(argv, 1, rule_loc)
    /\ logfile' = Arg(argv, 2, EmptyStr)
    /\ db' = Arg(argv, 3, db)
    /\ mails' = IF Len(argv) > 4 THEN Split(argv[5], ",") ELSE <<>>
    /\ session_name' = AfterLast(logfile', "\\")
    /\ caller' = "sysargs"
    /\ pc' = "entry"
    /\ UNCHANGED <<WorldVars, argv, report>>

\* lines 405-409
MainDirect ==
    /\ pc = "main"
    /\ Len(argv) <= 1
    /\ rules' = rule_loc
    /\ logfile' = log_loc
    /\ mails' = <<>>
    /\ session_name' = AfterLast(log_loc, "\\")
    /\ caller' = "main"
    /\ pc' = "entry"
    /\ UNCHANGED <<WorldVars, argv, db, report>>

\* the session name the process will use
SessionNameOf(av) ==
    IF Len(av) <= 1 THEN AfterLast(log_loc, "\\")
    ELSE AfterLast(Arg(av, 2, EmptyStr), "\\")

\* the script started from the command line
Init ==
    /\ Fresh
    /\ pc = "main"
    /\ caller = "none"
    /\ argv \in ArgvSet
    /\ rules = EmptyStr
    /\ logfile = EmptyStr
    /\ mails = <<>>
    /\ db = data
    /\ session_name = EmptyStr
    /\ manifest \in CliManifests
    /\ Workspace(SessionNameOf(argv))

Next ==
    \/ SysargsClean
    \/ RunFromSysargs
    \/ MainDirect
    \/ RunDR
    \/ ReportAfterRun

Spec == Init /\ [][Next]_vars

\* logs a user of the class can hold when calling report_output
ReportLogLines ==
    {DoneLine, NoErrorsLine, ExecWarningLine(RbjArg),
     FoundLine([sid |-> 1, title |-> TitleA, oid |-> 1])}

InitReport ==
    /\ license = 0
    /\ tmp_log \in SeqsUpTo(ReportLogLines, MaxLogPrefix)
    /\ arc_msgs = <<>>
    /\ rulefiles = Unbound
    /\ idx = 0
    /\ sess_obj_id = Unbound
    /\ ee = <<>>
    /\ invoked = <<>>
    /\ run = Idle
    /\ clean = NotCleaned
    /\ report = NotReported
    /\ pc = "report_call"
    /\ caller = "direct"
    /\ argv = <<ProgName>>
    /\ rules = EmptyStr
    /\ logfile = EmptyStr
    /\ mails = <<>>
    /\ db = data
    /\ session_name = EmptyStr
    /\ manifest = MissingManifest
    /\ ws = "enabled"
    /\ sessTable = <<>>
    /\ revTable = <<>>

SpecReport == InitReport /\ [][ReportDirect]_vars

-----------------------------------------------------------------------------
(* The claims *)

Finished == run.status \in {"returned", "raised"}

CountLines(lst, l) == Cardinality({i \in 1..Len(lst) : lst[i] = l})
HasKind(lst, k) == \E i \in 1..Len(lst) : lst[i].kind = k
TotalKind == TotalLine(0, EmptyStr).kind
FoundKind == FoundLine([sid |-> 0, title |-> EmptyStr, oid |-> 0]).kind
WarningKind == ExecWarningLine(EmptyStr).kind

\* the findings of the run's session, as the summarizer reads them
RunRows == SessionRows(revTable, sess_obj_id.val)

\* the summarizer has just run
JustSummarised == run.summarised /\ pc = "checkin"

\* C1: every call of runDR that checks out the license has checked it in again
\* when the call ends, by return or by exception.
C1_LicenseCheckedInAtEnd == Finished => license = 0

\* An engine message in the engine's own form: every part a six-digit,
\* zero-padded, non-zero number; its code is the number of its first part.
StandardPart(ds) == Len(ds) = 6 /\ ds[1] = 0 /\ DecimalValue(ds) > 0
StandardMessage(msg) == msg # <<>> /\ \A i \in 1..Len(msg) : StandardPart(msg[i])
ErrorCode(msg) == DecimalValue(msg[1])

\* the step that handles the ExecuteError of one rule file
C2_Handling ==
    pc = "exec_except" /\ StandardMessage(ee) =>
        IF ErrorCode(ee) = 732
        THEN /\ tmp_log' = Append(tmp_log, ExecWarningLine(rulefiles.val[idx]))
             /\ pc' = "loop"
             /\ idx' = idx + 1
             /\ run' = run
             /\ license' = license
        ELSE /\ pc' = "checkin"
             /\ run'.caught
             /\ tmp_log' = tmp_log

\* at a rule file the loop can only execute that file, and the summary comes
\* after the last one
C2_LoopGoesOn ==
    /\ pc = "loop" /\ rulefiles.bound /\ idx <= Len(rulefiles.val) =>
          /\ Len(invoked') = Len(invoked) + 1
          /\ invoked'[Len(invoked')].file = rulefiles.val[idx]
    /\ run'.summarised /\ ~run.summarised => idx > Len(rulefiles.val)

\* once the handler has caught an error: no execution, no summary, no raise
C2_AfterAbort ==
    run.caught =>
        /\ invoked' = invoked
        /\ ~run'.summarised
        /\ run'.status # "raised"
        /\ pc' = "returned" => license' = 0

\* C2: an engine error with code 732 on a rule file appends a warning line and
\* the loop goes on with the next rule file; an engine error with another code
\* ends the loop: no later rule file is executed, no summary is made, runDR's
\* handler catches it, runDR does not raise and the license is checked in.
C2_Error732ContinuesOthersAbort ==
    [][C2_Handling /\ C2_LoopGoesOn /\ C2_AfterAbort]_vars

C2_Witness ==
    /\ run.status = "returned"
    /\ run.caught
    /\ license = 0
    /\ Len(rulefiles.val) = 2
    /\ Len(invoked) = 2
    /\ invoked[1].kind = "error"
    /\ invoked[2].kind = "error"
    /\ CountLines(tmp_log, ExecWarningLine(rulefiles.val[1])) = 1
    /\ ~run.summarised

RECURSIVE ClaimSummary(_, _)
\* the lines the claim asks for, from row i on
ClaimSummary(rows, i) ==
    IF i > Len(rows) THEN <<>>
    ELSE LET n == Cardinality({j \in 1..Len(rows) : rows[j].title = rows[i].title})
             last == i = Len(rows) \/ rows[i + 1].title # rows[i].title
         IN <<FoundLine(rows[i])>>
            \o (IF last THEN <<TotalLine(n, rows[i].title)>> ELSE <<>>)
            \o ClaimSummary(rows, i + 1)

\* C3: for findings sorted by (title, record id) the summarizer appends one
\* 'Found' line per row, in order, and after the last row of every distinct
\* title one 'Total N' line, N the number of rows of that title; the empty
\* title included.
C3_FoundAndTotalLines ==
    JustSummarised =>
        SelectSeq(tmp_log, LAMBDA l : l.kind \in {FoundKind, TotalKind})
            = ClaimSummary(RunRows, 1)

\* C4: a run that reaches the summarizer with zero rows gets exactly one
\* 'No errors found.' line and no 'Total' line, a run with rows gets no
\* 'No errors found.' line, whatever the log already holds.
C4_NoErrorsLineIffZeroRows ==
    JustSummarised =>
        IF RunRows = <<>>
        THEN CountLines(tmp_log, NoErrorsLine) = 1 /\ ~HasKind(tmp_log, TotalKind)
        ELSE CountLines(tmp_log, NoErrorsLine) = 0

\* C4 (amended): with zero rows the summarizer appends one 'No errors found.'
\* line when no line of the log holds the marker 'Found' and none when one
\* does (the warning of an engine error 732 does), and no 'Total' line; with
\* rows it appends no 'No errors found.' line.
C4_NoErrorsLineIffNoMarker ==
    JustSummarised =>
        IF RunRows = <<>>
        THEN /\ CountLines(tmp_log, NoErrorsLine) =
                    (IF HasKind(tmp_log, WarningKind) THEN 0 ELSE 1)
             /\ ~HasKind(tmp_log, TotalKind)
        ELSE CountLines(tmp_log, NoErrorsLine) = 0

C4_Witness ==
    /\ JustSummarised
    /\ RunRows = <<>>
    /\ HasKind(tmp_log, WarningKind)
    /\ CountLines(tmp_log, NoErrorsLine) = 0

\* the rule-file list the claim asks for
ClaimAbsolute(l) == (Len(l) >= 2 /\ l[2] = ":") \/ (Len(l) >= 1 /\ l[1] = "/")
ClaimResolved(lines, dir) ==
    LET kept == SelectSeq(lines, LAMBDA l : l = <<>> \/ l[1] # "#")
    IN [i \in 1..Len(kept) |->
           IF ClaimAbsolute(kept[i]) THEN kept[i] ELSE PathJoin(dir, kept[i])]

\* C5: a readable manifest resolves to its lines without the lines that start
\* with '#', relative paths prefixed with the manifest's directory, absolute
\* paths unchanged; this succeeds for every line, blank and one-character
\* lines included; an empty list gives no batch-job invocation.
C5_ManifestResolved ==
    pc \notin {"main", "entry", "load"} /\ Contains(TxtSuffix, rules)
        /\ manifest.status = "ok" =>
            /\ run.status # "raised"
            /\ rulefiles = Bound(ClaimResolved(manifest.lines, Dirname(rules)))
            /\ rulefiles.val = <<>> => invoked = <<>>

\* C6: clean_dr_ws leaves a review-enabled workspace behind whenever deletion
\* and creation succeed, whether the workspace existed before or not.
C6_CleanLeavesWorkspace ==
    clean.called /\ clean.rm \in {"none", "ok"} /\ clean.made # "failed" =>
        ws = "enabled"

DeleteFailureLogged ==
    \E i \in 1..Len(arc_msgs) : arc_msgs[i] = "Failed to delete existing DR gdb."

NothingMade == ~clean.make /\ ~clean.copy /\ ~clean.create

\* C7: whenever the deletion of the workspace fails, for any cause, the
\* failure is logged and clean_dr_ws ends without make_dr_gdb: no creation and
\* no template copy is attempted.
C7_NoCreationAfterFailedDelete ==
    clean.rm \in {"in_use", "other"} => DeleteFailureLogged /\ NothingMade

\* C7 (amended): whenever the deletion fails because the workspace is in use
\* (error 32), the failure is logged and clean_dr_ws returns without
\* make_dr_gdb: no creation and no template copy is attempted.
C7_NoCreationAfterInUse ==
    clean.rm = "in_use" => DeleteFailureLogged /\ NothingMade /\ pc = "exit"

C7_Witness == clean.rm = "in_use" /\ clean.existed /\ ws # "absent" /\ pc = "exit"

\* C8: when both session creations of prep_dr_ws fail, no rule-job file is
\* executed and no summary is made, whatever the session table held before,
\* and runDR does not raise.
C8_NoSessionNoExecution ==
    run.session = "failed" =>
        invoked = <<>> /\ ~run.summarised /\ run.status # "raised"

\* a recipient list that is not empty ([""] counts as empty)
Recipients(ml) == ml # <<>> /\ ml # <<EmptyStr>>
EmailSent == report.emails # <<>>
ShouldSend == Recipients(report.mails) /\ (report.always \/ report.marker)

\* C9: report_output writes the log file exactly when a log path was given and
\* sends the email exactly when there are recipients and either
\* always_send_mail or a line with the marker.
C9_WritesAndSendsExactlyWhen ==
    report.called =>
        /\ report.write # "none" <=> Len(report.logfile) > 0
        /\ EmailSent <=> ShouldSend

\* C9 (amended): report_output writes the log file when a log path was given,
\* and, unless that write fails (the error then leaves report_output), sends
\* the email exactly when there are recipients and either always_send_mail or
\* a line with the marker.
C9_SendsUnlessWriteFails ==
    report.called =>
        /\ report.write # "none" <=> Len(report.logfile) > 0
        /\ report.write = "ok" => report.file = tmp_log
        /\ EmailSent <=> (report.write # "failed" /\ ShouldSend)
        /\ Len(report.emails) <= 1

C9_Witness ==
    /\ report.called
    /\ report.write = "failed"
    /\ ShouldSend
    /\ ~EmailSent

\* only clean_dr_ws and the line 'Cleanup completed.'
CleanOnly ==
    /\ pc = "exit" => clean.called /\ tmp_log = <<CleanupLine>>
    /\ run.checkouts = 0
    /\ license = 0
    /\ run.created = 0
    /\ invoked = <<>>
    /\ ~report.called

\* C10: with 'clean' as first argument, whatever follows, the process only
\* cleans the workspace and logs 'Cleanup completed.': no license, no session,
\* no rule execution, no log file, no email.
C10_CleanFirstArgument ==
    Len(argv) >= 2 /\ argv[2] = CleanWord => CleanOnly

\* C10 (amended): with 'clean' as the only argument the process only cleans the
\* workspace and logs 'Cleanup completed.': no license, no session, no rule
\* execution, no log file, no email.
C10_CleanOnlyArgument ==
    Len(argv) = 2 /\ argv[2] = CleanWord => CleanOnly

C10_Witness ==
    argv = <<ProgName, CleanWord>> /\ pc = "exit" /\ clean.called /\ clean.make

=============================================================================
